---- MODULE Spec2Model ----
(***************************************************************************)
(* Rule validators and the DataValidator runner of                         *)
(* src/src/cplus_plugin/lib/validation/validators.py.                      *)
(*                                                                         *)
(* Progress values are floats in the source.  Here they are exact          *)
(* rationals kept as integer numerators: a rule's progress is a numerator  *)
(* over M (the number of model components of the running rule validator),  *)
(* the runner's aggregate progress is a numerator over M * N (N the number *)
(* of registered rule validators).  100.0 is therefore 100 * M for a rule  *)
(* and 100 * M * N for the runner.  The sum of the M increments of a rule  *)
(* is a double that can miss 100.0 by its rounding; the numerator of that  *)
(* last sum is 100 * M plus the sign of the rounding.                      *)
(***************************************************************************)
EXTENDS Integers, Sequences, FiniteSets, TLC

VARIABLES
    mode,                     \* "runner": a DataValidator task; "direct": one rule validator run on its own
    ctor,                     \* the class that was constructed and the model components it was given
    model_components,         \* DataValidator.model_components
    rule_validators,          \* DataValidator._rule_validators, each with its model_components and _result
    feedback,                 \* the shared ValidationFeedback
    task,                     \* QgsTask state of the runner: cancellation flag and progress
    rule_reference_progress,  \* DataValidator._rule_reference_progress
    result,                   \* DataValidator._result
    pc,                       \* position of the worker: "idle", "loop", "rule", "returned", "raised"
    i,                        \* index of the rule validator in DataValidator._validate's loop
    ds,                       \* index of the next model component in the running rule's loop
    loc,                      \* local variables of the running rule's _validate
    ret,                      \* value returned by the last run()
    cancel_pc,                \* position inside DataValidator.cancel()
    events,                   \* signals emitted by the runner, oldest first
    runs,                     \* number of runs the scheduler has finished
    ghost,                    \* what happened in the current run (history only)
    result_log                \* every ValidationResult built by finished(True), with the run
                              \* that made each of its rule results (history only)

vars == << mode, ctor, model_components, rule_validators, feedback, task,
           rule_reference_progress, result, pc, i, ds, loc, ret, cancel_pc,
           events, runs, ghost, result_log >>

(***************************************************************************)
(* Bounds                                                                  *)
(***************************************************************************)
MaxComponents == 3
MaxRules == 3
MaxRuns == 2
MaxDatasets == 6

(***************************************************************************)
(* Program constants                                                       *)
(***************************************************************************)
NO_DATA_VALUE == -9999

DATA_TYPE == "DATA_TYPE"
CRS == "CRS"
NO_DATA == "NO_DATA_VALUE"

\* Python's None
None == "None"
NoRuleResult == [rule_type |-> None, summary |-> None, validate_info |-> << >>]
NoValidationResult == [rule_results |-> << >>, component_type |-> None]

MODEL_COMPONENT_TYPE == "UNKNOWN"
\* NcsDataValidator.MODEL_COMPONENT_TYPE
NCS_PATHWAY == "NCS_PATHWAY"

ComponentTypeOf(cls) == IF cls = "NcsDataValidator" THEN NCS_PATHWAY ELSE MODEL_COMPONENT_TYPE

RuleTypes == << DATA_TYPE, CRS, NO_DATA >>

\* The rule validator classes by rule type; the j-th registered validator of
\* a runner with more than three validators repeats the cycle.
RuleTypeAt(j) == RuleTypes[((j - 1) % 3) + 1]

(***************************************************************************)
(* Model components (external): name, is_valid(), to_map_layer()           *)
(***************************************************************************)
Names == << "A", "B", "C", "D", "E", "F", "G", "H" >>

NoCrs == "<no crs>"
Epsg4326 == "EPSG:4326"
Epsg3857 == "EPSG:3857"

\* kind "none": to_map_layer() returns None, so that every rule validator
\* raises on .clone(); raises_in: the rule validators in which reading the
\* component's layer raises
Profile(valid, kind, crs, has, nd, raises_in) ==
    [valid |-> valid, kind |-> kind, crs |-> crs, has_nodata |-> has, nodata |-> nd,
     raises_in |-> raises_in]

Invalid == Profile(FALSE, "none", NoCrs, FALSE, 0, {})
Broken == Profile(TRUE, "none", NoCrs, FALSE, 0, {DATA_TYPE, CRS, NO_DATA})
Vector == Profile(TRUE, "vector", Epsg4326, FALSE, 0, {})
Raster(crs, has, nd) == Profile(TRUE, "raster", crs, has, nd, {})
\* a raster layer whose crs() raises
CrsBroken == Profile(TRUE, "raster", NoCrs, TRUE, NO_DATA_VALUE, {CRS})

\* What a rule of type t can tell apart
ProfilesFor(t) ==
    {Invalid, Broken, Vector} \cup
    CASE t = DATA_TYPE -> {Raster(Epsg4326, TRUE, NO_DATA_VALUE)}
      [] t = CRS -> {CrsBroken} \cup
                    {Raster(c, TRUE, NO_DATA_VALUE) : c \in {NoCrs, Epsg4326, Epsg3857}}
      [] OTHER -> {Raster(Epsg4326, FALSE, 0)} \cup
                  {Raster(Epsg4326, TRUE, v) : v \in {NO_DATA_VALUE, -1, 0}}

\* A raster as every rule wants it, one whose band has no NoData value, a
\* component whose layer cannot be read
ProgressProfiles ==
    {Raster(Epsg4326, TRUE, NO_DATA_VALUE), Raster(Epsg4326, FALSE, 0), Broken}

RunnerProfiles ==
    {Invalid, Broken, CrsBroken, Vector,
     Raster(Epsg4326, TRUE, NO_DATA_VALUE), Raster(Epsg3857, TRUE, -1)}

\* Python's class `list` where a list of components is expected: it has no
\* len() and no item is a component
ListClass ==
    << [name |-> "<class 'list'>", valid |-> FALSE, kind |-> "type", crs |-> NoCrs,
        has_nodata |-> FALSE, nodata |-> 0, raises_in |-> {}] >>
IsListClass(mc) == mc = ListClass

Named(profiles) ==
    [j \in 1..Len(profiles) |->
        [name |-> Names[j], valid |-> profiles[j].valid, kind |-> profiles[j].kind,
         crs |-> profiles[j].crs, has_nodata |-> profiles[j].has_nodata,
         nodata |-> profiles[j].nodata, raises_in |-> profiles[j].raises_in]]

ComponentLists(P) ==
    UNION {{Named(s) : s \in [1..m -> P]} : m \in 0..MaxComponents}

(***************************************************************************)
(* Strings                                                                 *)
(***************************************************************************)
RECURSIVE Join(_)
Join(names) ==
    IF names = << >> THEN ""
    ELSE IF Len(names) = 1 THEN names[1]
    ELSE names[1] \o ", " \o Join(Tail(names))

Digit(d) == CASE d = 0 -> "0" [] d = 1 -> "1" [] d = 2 -> "2" [] d = 3 -> "3"
              [] d = 4 -> "4" [] d = 5 -> "5" [] d = 6 -> "6" [] d = 7 -> "7"
              [] d = 8 -> "8" [] OTHER -> "9"

RECURSIVE NatStr(_)
NatStr(n) == IF n < 10 THEN Digit(n) ELSE NatStr(n \div 10) \o Digit(n % 10)

\* str() of a Python int
IntStr(n) == IF n < 0 THEN "-" \o NatStr(0 - n) ELSE NatStr(n)

\* str() of a Python float holding a whole number
FloatStr(n) == IntStr(n) \o ".0"

(***************************************************************************)
(* Dictionaries in insertion order: bucket key -> list of names            *)
(***************************************************************************)
StrKey(s) == [isnum |-> FALSE, s |-> s, n |-> 0]
NumKey(n) == [isnum |-> TRUE, s |-> "", n |-> n]
KeyStr(k) == IF k.isnum THEN FloatStr(k.n) ELSE k.s

HasKey(d, k) == \E j \in 1..Len(d) : d[j].key = k

DictAddAlwaysNew(d, k, name) == Append(d, [key |-> k, layers |-> << name >>])
DictAdd(d, k, name) ==
    IF HasKey(d, k)
    THEN [j \in 1..Len(d) |->
            IF d[j].key = k THEN [d[j] EXCEPT !.layers = Append(@, name)] ELSE d[j]]
    ELSE Append(d, [key |-> k, layers |-> << name >>])

DictRows(d) == [j \in 1..Len(d) |-> << KeyStr(d[j].key), Join(d[j].layers) >>]

(***************************************************************************)
(* The doubles of the progress arithmetic.  A double d in [4, 128) is the  *)
(* pair << hi, lo >> with d = (hi * 2^28 + lo) / 2^51; such a d is a       *)
(* multiple of Ulp(hi).  Results are rounded to nearest, ties to even.     *)
(***************************************************************************)
Limb == 2^28

\* The spacing of the doubles around a value with high limb hi, in 2^-51
Ulp(hi) ==
    IF hi >= 2^29 THEN 32 ELSE IF hi >= 2^28 THEN 16 ELSE IF hi >= 2^27 THEN 8
    ELSE IF hi >= 2^26 THEN 4 ELSE 2

\* The double nearest to (hi * 2^28 + lo) / 2^51, or to a value just above
\* it when sticky
RoundDouble(hi, lo, sticky) ==
    LET u == Ulp(hi)
        r == lo % u
        base == lo - r
        up == \/ 2 * r > u
              \/ 2 * r = u /\ (sticky \/ (base \div u) % 2 = 1)
        rounded == IF up THEN base + u ELSE base
    IN IF rounded = Limb THEN << hi + 1, 0 >> ELSE << hi, rounded >>

\* 100.0 / m
FloatQuotient(m) ==
    LET r1 == (100 * 2^23) % m
        a == (r1 * 2^14) \div m
        r2 == (r1 * 2^14) % m
        b == (r2 * 2^14) \div m
        r3 == (r2 * 2^14) % m
    IN RoundDouble((100 * 2^23) \div m, a * 2^14 + b, r3 # 0)

\* x + y
FloatAdd(x, y) ==
    LET lo == x[2] + y[2]
    IN RoundDouble(x[1] + y[1] + lo \div Limb, lo % Limb, FALSE)

\* progress after k rounds of `progress += progress_increment`, k >= 1
RECURSIVE FloatProgress(_, _)
FloatProgress(m, k) ==
    IF k = 1 THEN FloatQuotient(m) ELSE FloatAdd(FloatProgress(m, k - 1), FloatQuotient(m))

\* -1, 0, 1: the double x is below, equal to, above 100.0
Against100(x) ==
    IF x[1] > 100 * 2^23 \/ (x[1] = 100 * 2^23 /\ x[2] > 0) THEN 1
    ELSE IF x[1] = 100 * 2^23 /\ x[2] = 0 THEN 0 ELSE 0 - 1

\* The value of `progress` that the loop hands to _set_progress when the sum
\* of the increments is the numerator p over m: below 100.0 before the last
\* round, and after it off 100.0 by the sign of the rounding
Reported(m, p) == IF p = 100 * m THEN p + Against100(FloatProgress(m, m)) ELSE p

(***************************************************************************)
(* ValidationFeedback (its module is not part of the sources at hand):     *)
(* fields current_rule, rule_progress, a cancellation flag and the overall *)
(* progress.  A rule_progress that changes notifies "rule progress         *)
(* changed" and then, when it has reached 100, "rule validation            *)
(* completed".                                                             *)
(***************************************************************************)
NewFeedback == [current_rule |-> None, rule_progress |-> 0, canceled |-> FALSE, progress |-> 0]

FeedbackSetCurrentRule(f, t) == [f EXCEPT !.current_rule = t]

FeedbackSetRuleProgress(f, p) == [f EXCEPT !.rule_progress = p]

\* Whether setting rule_progress to p notifies "rule progress changed"
FeedbackChanges(f, p) == p # f.rule_progress

\* Whether setting rule_progress to p (a numerator over m) notifies
\* "rule validation completed"
FeedbackCompletes(f, p, m) == FeedbackChanges(f, p) /\ p >= 100 * m

FeedbackSetProgress(f, p) == [f EXCEPT !.progress = p]

FeedbackIsCanceled(f) == f.canceled

FeedbackCanceled(f) == [f EXCEPT !.canceled = TRUE]

(***************************************************************************)
(* BaseRuleValidator                                                       *)
(***************************************************************************)
NewRuleValidator(t) ==
    [rule_type |-> t, model_components |-> << >>, result |-> NoRuleResult, result_run |-> 0]

\* BaseRuleValidator.run: fewer than two layers are refused
RuleTooFewFails(mc) == Len(mc) < 1
RuleTooFew(mc) == Len(mc) < 2

\* The locals of _validate before its loop: status, the list of non-raster
\* names, the bucket dictionary, progress
NoLoc == [status |-> TRUE, names |-> << >>, defs |-> << >>, progress |-> 0]
InitLocKept(l) == [l EXCEPT !.status = TRUE, !.progress = 0]
InitLoc(l) == NoLoc

\* Reading the layer of a valid component raises in a rule validator of type t
Raises(t, c) == c.valid /\ t \in c.raises_in

Step(l) == [l EXCEPT !.progress = @ + 100]

(***************************************************************************)
(* RasterValidator                                                         *)
(***************************************************************************)
InspectRasterDropsInvalid(l, c) ==
    IF ~c.valid THEN Step([l EXCEPT !.status = FALSE])
    ELSE IF c.kind # "raster" THEN Step([l EXCEPT !.names = Append(@, c.name)])
    ELSE Step(l)
InspectRaster(l, c) ==
    IF ~c.valid
    THEN Step([l EXCEPT !.status = FALSE, !.names = Append(@, c.name)])
    ELSE IF c.kind # "raster"
         THEN Step([l EXCEPT !.names = Append(@, c.name)])
         ELSE Step(l)

RasterResult(l) ==
    [rule_type |-> DATA_TYPE,
     summary |-> IF ~l.status THEN "There are invalid non-raster datasets"
                 ELSE "All datasets are rasters",
     validate_info |-> IF ~l.status THEN << << "Non-raster datasets", Join(l.names) >> >>
                       ELSE << >>]

(***************************************************************************)
(* CrsValidator                                                            *)
(***************************************************************************)
InspectCrs(l, c) ==
    IF ~c.valid
    THEN Step([l EXCEPT !.status = FALSE,
                        !.defs = DictAdd(@, StrKey("Invalid datasets"), c.name)])
    ELSE IF c.crs = NoCrs
         THEN Step([l EXCEPT !.status = FALSE,
                             !.defs = DictAdd(@, StrKey("Undefined"), c.name)])
         ELSE Step([l EXCEPT !.defs = DictAdd(@, StrKey(c.crs), c.name)])

CrsStatus(l) == IF Len(l.defs) > 1 /\ l.status THEN FALSE ELSE l.status

CrsResult(l) ==
    [rule_type |-> CRS,
     summary |-> IF ~CrsStatus(l) THEN "Datasets have different CRS definitions"
                 ELSE "All datasets have the same CRS - " \o KeyStr(l.defs[1].key),
     validate_info |-> IF ~CrsStatus(l) THEN DictRows(l.defs) ELSE << >>]

(***************************************************************************)
(* NoDataValueValidator                                                    *)
(***************************************************************************)
\* The two `continue` statements: a valid component that is no raster, or
\* whose band has no NoData value, leaves the loop body before _set_progress
NoDataSkips(c) == c.valid /\ (c.kind # "raster" \/ ~c.has_nodata)

InspectNoData(l, c) ==
    IF ~c.valid
    THEN Step([l EXCEPT !.status = FALSE,
                        !.defs = DictAdd(@, StrKey("Invalid datasets"), c.name)])
    ELSE IF NoDataSkips(c) THEN l
    ELSE IF c.nodata # NO_DATA_VALUE
         THEN Step([l EXCEPT !.defs = DictAdd(@, NumKey(c.nodata), c.name)])
         ELSE Step(l)

NoDataStatusAnyBucket(l) == IF Len(l.defs) > 0 /\ l.status THEN FALSE ELSE l.status
NoDataStatus(l) == IF Len(l.defs) > 1 /\ l.status THEN FALSE ELSE l.status

NoDataResult(l) ==
    [rule_type |-> NO_DATA,
     summary |-> IF ~NoDataStatus(l)
                 THEN "Datasets have a NoData value different from " \o IntStr(NO_DATA_VALUE)
                 ELSE "Datasets have the same NoData value " \o IntStr(NO_DATA_VALUE),
     validate_info |-> IF ~NoDataStatus(l) THEN DictRows(l.defs) ELSE << >>]

(***************************************************************************)
(* Dispatch on the rule validator's class                                  *)
(***************************************************************************)
Inspect(t, l, c) ==
    CASE t = DATA_TYPE -> InspectRaster(l, c)
      [] t = CRS -> InspectCrs(l, c)
      [] OTHER -> InspectNoData(l, c)

\* Whether the loop body reaches its _set_progress call for component c
Reports(t, c) == ~(t = NO_DATA /\ NoDataSkips(c))

RuleStatus(t, l) ==
    CASE t = DATA_TYPE -> l.status
      [] t = CRS -> CrsStatus(l)
      [] OTHER -> NoDataStatus(l)

RuleResultOf(t, l) ==
    CASE t = DATA_TYPE -> RasterResult(l)
      [] t = CRS -> CrsResult(l)
      [] OTHER -> NoDataResult(l)

(***************************************************************************)
(* DataValidator: progress aggregation                                     *)
(***************************************************************************)
\* _on_rule_progress_changed: reference progress + rule_progress / N
TotalProgress(ref, p) == ref + p

\* _on_rule_validation_completed: reference progress + 100 / N
ReferenceCompleted(ref, m) == ref + 100 * m

\* BaseRuleValidator._set_progress(p) of a rule over m components, on
\* feedback f, with the runner's two slots when the feedback is a runner's
SetProgress(f, p, m) ==
    IF mode = "runner" /\ Len(rule_validators) # 0 /\ FeedbackChanges(f, p)
    THEN /\ feedback' = FeedbackSetProgress(FeedbackSetRuleProgress(f, p),
                                            TotalProgress(rule_reference_progress, p))
         /\ task' = [task EXCEPT !.progress = TotalProgress(rule_reference_progress, p)]
         /\ rule_reference_progress' =
                IF FeedbackCompletes(f, p, m)
                THEN ReferenceCompleted(rule_reference_progress, m)
                ELSE rule_reference_progress
    ELSE /\ feedback' = FeedbackSetRuleProgress(f, p)
         /\ UNCHANGED << task, rule_reference_progress >>

(***************************************************************************)
(* State after construction                                                *)
(***************************************************************************)
\* started: the rule validators whose _validate was entered; completed: those
\* whose _validate ran to its end; cancelled_early: those whose first poll of
\* the cancellation flag found it set; cancel_seen: some poll found it set;
\* raised: a rule validator raised; failed: the rule validators whose
\* _validate ran to its end and returned False
NewGhost == [started |-> {}, completed |-> {}, cancelled_early |-> {},
             cancel_seen |-> FALSE, raised |-> FALSE, failed |-> {}]

InitCommon ==
    /\ feedback = NewFeedback
    /\ task = [canceled |-> FALSE, progress |-> 0]
    /\ rule_reference_progress = 0
    /\ result = NoValidationResult
    /\ pc = "idle"
    /\ i = 0
    /\ ds = 0
    /\ loc = NoLoc
    /\ ret = FALSE
    /\ cancel_pc = "none"
    /\ events = << >>
    /\ runs = 0
    /\ ghost = NewGhost
    /\ result_log = << >>

\* A DataValidator with n rule validators added and the caller's components
Init ==
    /\ mode = "runner"
    /\ model_components \in ComponentLists(RunnerProfiles)
    /\ ctor = [cls |-> "DataValidator", model_components |-> model_components]
    /\ \E n \in 0..MaxRules :
          rule_validators = [j \in 1..n |-> NewRuleValidator(RuleTypeAt(j))]
    /\ InitCommon

\* NcsDataValidator.__init__ with the model components mc: DataValidator's
\* __init__ stores them, kwargs.pop("ncs_pathways", list) then stores its
\* default (super().__init__ accepts no ncs_pathways keyword, so that key is
\* never there), and the three rule validators are added
NcsModelComponents(mc) == ListClass
NcsRuleValidators ==
    << NewRuleValidator(DATA_TYPE), NewRuleValidator(CRS), NewRuleValidator(NO_DATA) >>

InitNcs ==
    /\ mode = "runner"
    /\ \E mc \in ComponentLists(RunnerProfiles) :
          /\ ctor = [cls |-> "NcsDataValidator", model_components |-> mc]
          /\ model_components = NcsModelComponents(mc)
    /\ rule_validators = NcsRuleValidators
    /\ InitCommon

\* One rule validator on its own, its model_components set by the caller
InitRule ==
    /\ mode = "direct"
    /\ model_components = << >>
    /\ ctor = [cls |-> "BaseRuleValidator", model_components |-> << >>]
    /\ \E t \in {DATA_TYPE, CRS, NO_DATA} : \E mc \in ComponentLists(ProfilesFor(t)) :
          rule_validators = << [NewRuleValidator(t) EXCEPT !.model_components = mc] >>
    /\ InitCommon

\* One rule validator on its own with up to MaxDatasets model components
InitProgress ==
    /\ mode = "direct"
    /\ model_components = << >>
    /\ ctor = [cls |-> "BaseRuleValidator", model_components |-> << >>]
    /\ \E t \in {DATA_TYPE, CRS, NO_DATA} : \E m \in 0..MaxDatasets :
       \E s \in [1..m -> ProgressProfiles] :
          rule_validators = << [NewRuleValidator(t) EXCEPT !.model_components = Named(s)] >>
    /\ InitCommon

(***************************************************************************)
(* The running rule validator                                              *)
(***************************************************************************)
Running == rule_validators[i]
M == Len(Running.model_components)

FinishedEvent(j, rv) ==
    [sig |-> "rule_validation_finished", run |-> runs + 1, idx |-> j,
     rule_type |-> rv.rule_type, result_run |-> rv.result_run]

CompletedEvent == [sig |-> "validation_completed", run |-> runs + 1, idx |-> 0,
                   rule_type |-> None, result_run |-> runs + 1]

\* DataValidator._validate after rule_validator.run() has returned: the
\* rule-finished signal if the validator holds a result, then the next one
AfterRuleRun(rvs) ==
    /\ events' = IF rvs[i].result # NoRuleResult
                 THEN Append(events, FinishedEvent(i, rvs[i]))
                 ELSE events
    /\ i' = i + 1
    /\ pc' = "loop"
    /\ UNCHANGED ret

\* The caught exception of DataValidator.run
CaughtStatusKept == TRUE
CaughtStatus == FALSE

\* A rule's _validate returns status to BaseRuleValidator.run's caller
RuleReturns(rvs, status) ==
    IF mode = "runner"
    THEN AfterRuleRun(rvs)
    ELSE /\ ret' = status
         /\ pc' = "returned"
         /\ UNCHANGED << events, i >>

\* _validate from its first line to the top of its loop
RulePrologue(f, rvs) ==
    /\ loc' = InitLoc(loc)
    /\ SetProgress(f, 0, Len(rvs[i'].model_components))
    /\ ds' = 1
    /\ pc' = "rule"
    /\ ghost' = [ghost EXCEPT !.started = @ \cup {i'}]

RuleCancelled ==
    /\ pc = "rule"
    /\ ds <= M
    /\ FeedbackIsCanceled(feedback)
    /\ RuleReturns(rule_validators, FALSE)
    /\ ghost' = [ghost EXCEPT !.cancel_seen = TRUE,
                              !.cancelled_early = IF ds = 1 THEN @ \cup {i} ELSE @]
    /\ UNCHANGED << mode, ctor, model_components, rule_validators, feedback, task,
                    rule_reference_progress, result, ds, loc, cancel_pc, runs,
                    result_log >>

RuleRaise ==
    /\ pc = "rule"
    /\ ds <= M
    /\ ~FeedbackIsCanceled(feedback)
    /\ Raises(Running.rule_type, Running.model_components[ds])
    /\ IF mode = "runner"
       THEN ret' = CaughtStatus /\ pc' = "returned"
       ELSE pc' = "raised" /\ UNCHANGED ret
    /\ ghost' = [ghost EXCEPT !.raised = TRUE]
    /\ UNCHANGED << mode, ctor, model_components, rule_validators, feedback, task,
                    rule_reference_progress, result, i, ds, loc, cancel_pc, events,
                    runs, result_log >>

RuleInspect ==
    /\ pc = "rule"
    /\ ds <= M
    /\ ~FeedbackIsCanceled(feedback)
    /\ ~Raises(Running.rule_type, Running.model_components[ds])
    /\ loc' = Inspect(Running.rule_type, loc, Running.model_components[ds])
    /\ IF Reports(Running.rule_type, Running.model_components[ds])
       THEN SetProgress(feedback, Reported(M, loc'.progress), M)
       ELSE UNCHANGED << feedback, task, rule_reference_progress >>
    /\ ds' = ds + 1
    /\ UNCHANGED << mode, ctor, model_components, rule_validators, result, pc, i, ret,
                    cancel_pc, events, runs, ghost, result_log >>

RuleFinish ==
    /\ pc = "rule"
    /\ ds > M
    /\ rule_validators' =
          [rule_validators EXCEPT ![i].result = RuleResultOf(Running.rule_type, loc),
                                  ![i].result_run = runs + 1]
    /\ SetProgress(feedback, 100 * M, M)
    /\ RuleReturns(rule_validators', RuleStatus(Running.rule_type, loc))
    /\ ghost' = [ghost EXCEPT !.completed = @ \cup {i},
                              !.failed = IF RuleStatus(Running.rule_type, loc)
                                         THEN @ ELSE @ \cup {i}]
    /\ UNCHANGED << mode, ctor, model_components, result, ds, loc, cancel_pc, runs,
                    result_log >>

\* BaseRuleValidator.run called by the rule validator's own caller
RuleRun ==
    /\ mode = "direct"
    /\ pc = "idle"
    /\ i' = 1
    /\ IF RuleTooFew(rule_validators[1].model_components)
       THEN /\ ret' = FALSE
            /\ pc' = "returned"
            /\ UNCHANGED << feedback, task, rule_reference_progress, loc, ds, ghost >>
       ELSE /\ RulePrologue(feedback, rule_validators)
            /\ UNCHANGED ret
    /\ UNCHANGED << mode, ctor, model_components, rule_validators, result, cancel_pc,
                    events, runs, result_log >>

\* feedback.cancel() by the holder of a rule validator's feedback
FeedbackCancel ==
    /\ mode = "direct"
    /\ ~feedback.canceled
    /\ feedback' = FeedbackCanceled(feedback)
    /\ UNCHANGED << mode, ctor, model_components, rule_validators, task,
                    rule_reference_progress, result, pc, i, ds, loc, ret, cancel_pc,
                    events, runs, ghost, result_log >>

(***************************************************************************)
(* DataValidator                                                           *)
(***************************************************************************)
\* The two refusals of DataValidator.run
RunRefusedFewer == Len(rule_validators) = 0 \/ Len(model_components) < 1
RunRefused == Len(rule_validators) = 0 \/ Len(model_components) < 2

\* DataValidator.run up to the first iteration of _validate's loop;
\* len(self.model_components) is outside the try block and raises TypeError
\* on an object without len()
Run ==
    /\ mode = "runner"
    /\ pc = "idle"
    /\ runs < MaxRuns
    /\ ghost' = NewGhost
    /\ IF Len(rule_validators) # 0 /\ IsListClass(model_components)
       THEN /\ pc' = "raised"
            /\ UNCHANGED << i, ret >>
       ELSE IF RunRefused
       THEN /\ ret' = FALSE
            /\ pc' = "returned"
            /\ UNCHANGED i
       ELSE /\ i' = 1
            /\ pc' = "loop"
            /\ UNCHANGED ret
    /\ UNCHANGED << mode, ctor, model_components, rule_validators, feedback, task,
                    rule_reference_progress, result, ds, loc, cancel_pc, events,
                    runs, result_log >>

\* The status that _validate returns when its loop is exhausted, failed
\* being the rule validators whose run() returned False with a result: the
\* value of rule_validator.run() is not looked at
ValidateStatusAllPassed(failed) == failed = {}
ValidateStatus(failed) == TRUE

\* _validate: the loop is exhausted, status is still True
ValidateDone ==
    /\ mode = "runner"
    /\ pc = "loop"
    /\ i > Len(rule_validators)
    /\ ret' = ValidateStatus(ghost.failed)
    /\ pc' = "returned"
    /\ UNCHANGED << mode, ctor, model_components, rule_validators, feedback, task,
                    rule_reference_progress, result, i, ds, loc, cancel_pc, events,
                    runs, ghost, result_log >>

\* _validate: isCanceled() at the top of an iteration
ValidateCancelled ==
    /\ mode = "runner"
    /\ pc = "loop"
    /\ i <= Len(rule_validators)
    /\ task.canceled
    /\ ret' = FALSE
    /\ pc' = "returned"
    /\ ghost' = [ghost EXCEPT !.cancel_seen = TRUE]
    /\ UNCHANGED << mode, ctor, model_components, rule_validators, feedback, task,
                    rule_reference_progress, result, i, ds, loc, cancel_pc, events,
                    runs, result_log >>

\* rule_validator.model_components = self.model_components
AssignedNothing(rvs, j, mc) == rvs
Assigned(rvs, j, mc) == [rvs EXCEPT ![j].model_components = mc]

\* _validate: hand the components to the next rule validator, mark it as the
\* current rule and call its run(), up to the top of the rule's loop
StartRule ==
    /\ mode = "runner"
    /\ pc = "loop"
    /\ i <= Len(rule_validators)
    /\ ~task.canceled
    /\ rule_validators' = Assigned(rule_validators, i, model_components)
    /\ UNCHANGED i
    /\ IF RuleTooFew(model_components)
       THEN /\ feedback' = FeedbackSetCurrentRule(feedback, Running.rule_type)
            /\ AfterRuleRun(rule_validators')
            /\ UNCHANGED << task, rule_reference_progress, loc, ds, ghost >>
       ELSE /\ RulePrologue(FeedbackSetCurrentRule(feedback, Running.rule_type),
                            rule_validators')
            /\ UNCHANGED << ret, events >>
    /\ UNCHANGED << mode, ctor, model_components, result, cancel_pc, runs, result_log >>

\* The ValidationResult that finished(True) builds
BuildResult ==
    [rule_results |-> [j \in 1..Len(rule_validators) |-> rule_validators[j].result],
     component_type |-> ComponentTypeOf(ctor.cls)]

\* The scheduler's completion callback, finished(result), with run()'s value
Finished ==
    /\ mode = "runner"
    /\ pc = "returned"
    /\ IF ret
       THEN /\ result' = BuildResult
            /\ events' = Append(events, CompletedEvent)
            /\ result_log' = Append(result_log,
                                    [run |-> runs + 1, result |-> BuildResult,
                                     result_runs |-> [j \in 1..Len(rule_validators) |->
                                                         rule_validators[j].result_run],
                                     cancel |-> cancel_pc # "none"])
       ELSE UNCHANGED << result, events, result_log >>
    /\ pc' = "idle"
    /\ runs' = runs + 1
    /\ UNCHANGED << mode, ctor, model_components, rule_validators, feedback, task,
                    rule_reference_progress, i, ds, loc, ret, cancel_pc, ghost >>

\* DataValidator.cancel, first half: self._feedback.cancel()
CancelFeedback ==
    /\ mode = "runner"
    /\ cancel_pc = "none"
    /\ feedback' = FeedbackCanceled(feedback)
    /\ cancel_pc' = "feedback"
    /\ UNCHANGED << mode, ctor, model_components, rule_validators, task,
                    rule_reference_progress, result, pc, i, ds, loc, ret, events,
                    runs, ghost, result_log >>

\* DataValidator.cancel, second half: super().cancel()
CancelTask ==
    /\ mode = "runner"
    /\ cancel_pc = "feedback"
    /\ task' = [task EXCEPT !.canceled = TRUE]
    /\ cancel_pc' = "done"
    /\ UNCHANGED << mode, ctor, model_components, rule_validators, feedback,
                    rule_reference_progress, result, pc, i, ds, loc, ret, events,
                    runs, ghost, result_log >>

\* The owner of the runner assigns its public attribute model_components
SetModelComponents ==
    /\ mode = "runner"
    /\ pc = "idle"
    /\ model_components # ctor.model_components
    /\ model_components' = ctor.model_components
    /\ UNCHANGED << mode, ctor, rule_validators, feedback, task,
                    rule_reference_progress, result, pc, i, ds, loc, ret, cancel_pc,
                    events, runs, ghost, result_log >>

Next ==
    \/ Run
    \/ StartRule
    \/ RuleInspect
    \/ RuleRaise
    \/ RuleCancelled
    \/ RuleFinish
    \/ ValidateCancelled
    \/ ValidateDone
    \/ Finished
    \/ CancelFeedback
    \/ CancelTask

Spec == Init /\ [][Next]_vars

\* An NcsDataValidator and its owner
NextNcs == Next \/ SetModelComponents

SpecNcs == InitNcs /\ [][NextNcs]_vars

NextRule ==
    \/ RuleRun
    \/ RuleInspect
    \/ RuleRaise
    \/ RuleCancelled
    \/ RuleFinish
    \/ FeedbackCancel

SpecRule == InitRule /\ [][NextRule]_vars

\* One rule validator on its own over longer lists of few kinds of datasets
SpecProgress == InitProgress /\ [][NextRule]_vars

(***************************************************************************)
(* Properties                                                              *)
(***************************************************************************)
N == Len(rule_validators)
Mc == Len(model_components)

HasEvent(sig, run) ==
    \E k \in 1..Len(events) : events[k].sig = sig /\ events[k].run = run

\* C1: when a rule validator finds the cancellation flag set at the first
\* poll of its loop (so it returned false before inspecting any dataset),
\* DataValidator.run() returns false, whichever rule validator it was.
C1_CancelledRunReturnsFalse ==
    (mode = "runner" /\ pc = "returned" /\ ghost.cancelled_early # {}) => ret = FALSE

\* C2: once the scheduler has finished a run, the validation-completed signal
\* of that run and its ValidationResult exist only if every registered rule
\* validator ran to completion in it, no poll saw a cancellation and no rule
\* validator raised.
C2_CompletedOnlyOnFullSuccess ==
    (mode = "runner" /\ pc = "idle" /\ runs > 0
        /\ (HasEvent("validation_completed", runs)
            \/ \E k \in 1..Len(result_log) : result_log[k].run = runs))
    => (ghost.completed = 1..N /\ ~ghost.cancel_seen /\ ~ghost.raised)

\* C3: when a rule validator raises during a run, run() returns false, the
\* exception does not leave run(), and no rule validator registered after the
\* raising one is started.
C3_ExceptionContained ==
    (mode = "runner" /\ ghost.raised)
    => /\ pc \in {"returned", "idle"}
       /\ ret = FALSE
       /\ \A j \in ghost.started : j <= i
       /\ \A j \in ghost.completed : j < i

C3_Witness ==
    /\ mode = "runner"
    /\ ghost.raised
    /\ pc = "returned"
    /\ ghost.completed = {1}
    /\ i = 2
    /\ ds > 1
    /\ N = 3

\* C4: in a runner with N rule validators, right after the k-th rule of a run
\* has completed the aggregate progress is 100 * k / N and so is the
\* accumulated share, and while the next rule reports progress P the
\* aggregate is 100 * k / N + P / N.
C4_ProgressShare ==
    /\ (mode = "runner" /\ pc = "loop" /\ (i - 1) \in ghost.completed)
       => /\ task.progress = 100 * Mc * Cardinality(ghost.completed)
          /\ rule_reference_progress = 100 * Mc * Cardinality(ghost.completed)
    /\ (mode = "runner" /\ pc = "rule")
       => task.progress = 100 * Mc * Cardinality(ghost.completed) + feedback.rule_progress

\* C5: a run() of a runner with no rule validator or fewer than 2 model
\* components returns false and changes nothing: no rule validator is entered,
\* the feedback, the progress, the signals and the result stay as they were.
C5_EntryGuard ==
    [][(mode = "runner" /\ pc = "idle" /\ pc' # "idle" /\ (N = 0 \/ Mc < 2))
       => /\ pc' = "returned"
          /\ ret' = FALSE
          /\ ghost'.started = {}
          /\ UNCHANGED << model_components, rule_validators, feedback, task,
                          rule_reference_progress, result, events, result_log >>]_vars

C5_Witness ==
    /\ mode = "runner"
    /\ pc = "returned"
    /\ N > 0
    /\ Mc = 1
    /\ ret = FALSE
    /\ ghost.started = {}
    /\ runs = 1
    /\ cancel_pc = "none"

\* C6: every rule-finished signal is preceded by the rule-started signal of
\* the same rule in the same run, and no validation-completed signal of that
\* run precedes it.
C6_EventOrdering ==
    \A k \in 1..Len(events) :
        events[k].sig = "rule_validation_finished"
        => /\ \E s \in 1..(k - 1) :
                 /\ events[s].sig = "rule_validation_started"
                 /\ events[s].run = events[k].run
                 /\ events[s].idx = events[k].idx
           /\ \A c \in 1..(k - 1) :
                 ~(events[c].sig = "validation_completed" /\ events[c].run = events[k].run)

\* C7: two ValidationResults built by the same runner on the same components,
\* with no cancellation requested up to the later one, hold the same rule
\* results.
C7_Idempotent ==
    \A a, b \in 1..Len(result_log) :
        (~result_log[a].cancel /\ ~result_log[b].cancel)
        => result_log[a].result.rule_results = result_log[b].result.rule_results

C7_Witness ==
    /\ mode = "runner"
    /\ Len(result_log) >= 2
    /\ ~result_log[2].cancel
    /\ N >= 2
    /\ result_log[2].result.rule_results[1].validate_info # << >>
    /\ result_log[2].result.rule_results[2].validate_info # << >>

\* C8: a rule validator run on its own with fewer than 2 model components
\* returns false, never enters its validation, reports no progress and holds
\* no result.
C8_RuleTooFew ==
    (mode = "direct" /\ pc # "idle" /\ Len(rule_validators[1].model_components) < 2)
    => /\ pc = "returned"
       /\ ret = FALSE
       /\ ghost.started = {}
       /\ feedback.rule_progress = NewFeedback.rule_progress
       /\ feedback.progress = NewFeedback.progress
       /\ rule_validators[1].result = NoRuleResult

C8_Witness ==
    /\ mode = "direct"
    /\ pc = "returned"
    /\ Len(rule_validators[1].model_components) = 1
    /\ rule_validators[1].model_components[1].kind = "raster"
    /\ rule_validators[1].rule_type = NO_DATA
    /\ ~feedback.canceled

IsRaster(c) == c.valid /\ c.kind = "raster"

\* C9: a RasterValidator that ran to its end returns true, with the summary
\* 'All datasets are rasters' and no detail row, exactly when every model
\* component is valid and backed by a raster layer.
C9_RasterPassIff ==
    (mode = "direct" /\ pc = "returned" /\ 1 \in ghost.completed
        /\ rule_validators[1].rule_type = DATA_TYPE)
    => ((/\ ret = TRUE
         /\ rule_validators[1].result.summary = "All datasets are rasters"
         /\ rule_validators[1].result.validate_info = << >>)
        <=> \A j \in 1..Len(rule_validators[1].model_components) :
                IsRaster(rule_validators[1].model_components[j]))

Offending(mc) == SelectSeq(mc, LAMBDA c : ~IsRaster(c))
NamesOf(mc) == [j \in 1..Len(mc) |-> mc[j].name]

\* C10: a RasterValidator that ran to its end and failed holds exactly one
\* detail row, which lists the names of the components that are invalid or
\* not backed by a raster layer, each once and in input order, and no other.
C10_RasterDetailRow ==
    (mode = "direct" /\ pc = "returned" /\ 1 \in ghost.completed
        /\ rule_validators[1].rule_type = DATA_TYPE /\ ret = FALSE)
    => rule_validators[1].result.validate_info =
          << << "Non-raster datasets",
                Join(NamesOf(Offending(rule_validators[1].model_components))) >> >>

C10_Witness ==
    /\ mode = "direct"
    /\ pc = "returned"
    /\ 1 \in ghost.completed
    /\ rule_validators[1].rule_type = DATA_TYPE
    /\ ret = FALSE
    /\ Len(rule_validators[1].model_components) = 3
    /\ IsRaster(rule_validators[1].model_components[1])
    /\ ~rule_validators[1].model_components[2].valid
    /\ rule_validators[1].model_components[3].kind = "vector"
    /\ rule_validators[1].result.validate_info = << << "Non-raster datasets", "B, C" >> >>

\* A rule validator of type t, run on its own, ran to its end
RanToEnd(t) ==
    /\ mode = "direct"
    /\ pc = "returned"
    /\ 1 \in ghost.completed
    /\ rule_validators[1].rule_type = t

Given == rule_validators[1].model_components
DetailRows == rule_validators[1].result.validate_info

CrsBucket(c) ==
    IF ~c.valid THEN "Invalid datasets" ELSE IF c.crs = NoCrs THEN "Undefined" ELSE c.crs

\* C11: a CrsValidator that ran to its end returns true exactly when every
\* component is valid, has a CRS and all have the same CRS id; when it
\* returns false its detail rows are one per distinct bucket (a CRS id,
\* 'Undefined', 'Invalid datasets'), and the row of a bucket lists the names
\* of exactly the components of that bucket, in input order.
C11_CrsBuckets ==
    RanToEnd(CRS)
    => /\ ret = (/\ \A a \in 1..Len(Given) : Given[a].valid /\ Given[a].crs # NoCrs
                 /\ \A a, b \in 1..Len(Given) : Given[a].crs = Given[b].crs)
       /\ ~ret =>
            /\ Len(DetailRows) = Cardinality({CrsBucket(Given[a]) : a \in 1..Len(Given)})
            /\ \A r, s \in 1..Len(DetailRows) :
                  r # s => DetailRows[r][1] # DetailRows[s][1]
            /\ \A r \in 1..Len(DetailRows) :
                  DetailRows[r][2] =
                     Join(NamesOf(SelectSeq(Given,
                                            LAMBDA c : CrsBucket(c) = DetailRows[r][1])))

C11_Witness ==
    /\ RanToEnd(CRS)
    /\ ret = FALSE
    /\ Len(Given) = 3
    /\ \A a \in 1..3 : Given[a].valid
    /\ DetailRows = << << "EPSG:4326", "A, C" >>, << "EPSG:3857", "B" >> >>

\* A valid raster whose band declares a NoData value / declares none
Declares(c) == IsRaster(c) /\ c.has_nodata
Lacks(c) == IsRaster(c) /\ ~c.has_nodata
Differing(mc) == {a \in 1..Len(mc) : Declares(mc[a]) /\ mc[a].nodata # NO_DATA_VALUE}

\* C12: a NoDataValueValidator that ran to its end on valid rasters that all
\* declare a NoData value, all the expected one except a single component,
\* returns false and holds exactly one bucket, keyed by the differing value,
\* with that component alone; a raster that declares no NoData value is in no
\* bucket.
C12_OneDiffering ==
    RanToEnd(NO_DATA)
    => /\ ((\A a \in 1..Len(Given) : Declares(Given[a]))
            /\ Cardinality(Differing(Given)) = 1)
          => /\ ret = FALSE
             /\ Len(loc.defs) = 1
             /\ \A a \in Differing(Given) :
                   /\ loc.defs[1].key = NumKey(Given[a].nodata)
                   /\ loc.defs[1].layers = << Given[a].name >>
       /\ \A a \in 1..Len(Given) :
             Lacks(Given[a])
             => \A b \in 1..Len(loc.defs) : \A k \in 1..Len(loc.defs[b].layers) :
                   loc.defs[b].layers[k] # Given[a].name

InNoBucket(name) ==
    \A b \in 1..Len(loc.defs) : \A k \in 1..Len(loc.defs[b].layers) :
        loc.defs[b].layers[k] # name

C14_RuleProgress ==
    /\ [](mode = "direct"
          => /\ (pc = "rule" /\ ds = 1) => feedback.rule_progress = 0
             /\ (pc = "returned" /\ 1 \in ghost.completed)
                   => feedback.rule_progress = 100 * M
             /\ (pc = "returned" /\ ghost.cancel_seen)
                   => feedback.rule_progress < 100 * M)
    /\ [][(mode = "direct" /\ pc = "rule")
          => feedback'.rule_progress >= feedback.rule_progress]_vars

\* C15: an NcsDataValidator holds exactly the three rule validators for the
\* data type, the CRS and the NoData value, in that order, every
\* ValidationResult it builds carries the NCS pathway component type, and
\* beyond that it is a DataValidator: its model components are those it was
\* constructed with.
C15_NcsWiring ==
    (mode = "runner" /\ ctor.cls = "NcsDataValidator")
    => /\ [j \in 1..N |-> rule_validators[j].rule_type] = << DATA_TYPE, CRS, NO_DATA >>
       /\ result # NoValidationResult => result.component_type = NCS_PATHWAY
       /\ \A k \in 1..Len(result_log) : result_log[k].result.component_type = NCS_PATHWAY
       /\ model_components = ctor.model_components

\* The indices of the rule-finished signals of run r, oldest first
FinishedOrder(r) ==
    LET fin == SelectSeq(events, LAMBDA e : e.sig = "rule_validation_finished" /\ e.run = r)
    IN [k \in 1..Len(fin) |-> fin[k].idx]

\* C16: while rule validator i of a run is running it holds the runner's
\* model components, feedback.current_rule is its rule type, and the rule
\* validators started so far in the run are exactly the first i; between two
\* rule validators exactly the first i - 1 have been started; the
\* rule-finished signals of a run carry increasing indices.
C16_OneAtATime ==
    mode = "runner"
    => /\ pc = "rule"
          => /\ Running.model_components = model_components
             /\ feedback.current_rule = Running.rule_type
             /\ ghost.started = 1..i
             /\ ghost.completed \subseteq 1..(i - 1)
       /\ pc = "loop" => ghost.started = 1..(i - 1)
       /\ \A r \in 1..(runs + 1) :
             \A a, b \in 1..Len(FinishedOrder(r)) :
                a < b => FinishedOrder(r)[a] < FinishedOrder(r)[b]

C16_Witness ==
    /\ mode = "runner"
    /\ N = 3
    /\ pc = "rule"
    /\ i = 3
    /\ ds = 2
    /\ runs = 0
    /\ FinishedOrder(1) = << 1, 2 >>

FinishedIn(r) == {FinishedOrder(r)[k] : k \in 1..Len(FinishedOrder(r))}

\* C17: in every run the rule validators for which the rule-finished signal
\* has been emitted are exactly those whose _validate ran to its end in that
\* run, the result that the signal carries was made in that run, and a rule
\* validator that was started but did not run to its end holds no result.
C17_FinishedIffCompleted ==
    (mode = "runner" /\ pc \in {"loop", "rule", "returned"})
    => /\ FinishedIn(runs + 1) = ghost.completed
       /\ \A k \in 1..Len(events) :
             events[k].sig = "rule_validation_finished"
             => events[k].result_run = events[k].run
       /\ \A j \in ghost.started \ ghost.completed :
             (pc = "rule" => j # i) => rule_validators[j].result = NoRuleResult

\* C18: once cancel() has set the feedback's flag and the task's flag during
\* a run, the running rule validator inspects no further dataset, no rule
\* validator is started, no rule-finished signal is emitted, and a run in
\* which a poll has found a flag set returns false.
C18_CancelStops ==
    /\ [](mode = "runner"
          => /\ cancel_pc = "done" => (task.canceled /\ feedback.canceled)
             /\ (pc = "returned" /\ cancel_pc = "done" /\ ghost.cancel_seen)
                   => ret = FALSE)
    /\ [][(mode = "runner" /\ cancel_pc = "done" /\ pc \in {"loop", "rule"})
          => /\ ghost'.started = ghost.started
             /\ ds' = ds
             /\ FinishedOrder(runs + 1)' = FinishedOrder(runs + 1)]_vars

\* C19: every ValidationResult that finished(True) builds holds one rule
\* result per registered rule validator, in registration order, none of them
\* None, and each of them made in the run that built the ValidationResult.
C19_ResultComplete ==
    mode = "runner"
    => \A k \in 1..Len(result_log) :
          /\ Len(result_log[k].result.rule_results) = N
          /\ \A j \in 1..N :
                /\ result_log[k].result.rule_results[j] # NoRuleResult
                /\ result_log[k].result.rule_results[j].rule_type
                      = rule_validators[j].rule_type
                /\ result_log[k].result_runs[j] = result_log[k].run

\* C20: the aggregate progress that the runner sets is never below 0 nor
\* above 100, never goes down from the first report of a run to its end, and
\* at the start of every run the accumulated share of the finished rule
\* validators is 0.
C20_AggregateProgress ==
    /\ [](mode = "runner"
          => /\ 0 <= task.progress
             /\ task.progress <= 100 * Mc * N
             /\ (pc = "loop" /\ i = 1) => rule_reference_progress = 0)
    /\ [][(mode = "runner" /\ (pc = "rule" \/ (pc = "loop" /\ i > 1)))
          => task'.progress >= task.progress]_vars

\* C21: a run in which rule validators were started, no poll found a
\* cancellation flag set and no rule validator raised returns true with every
\* registered rule validator run to its end and a rule-finished signal for
\* each, whether or not some of them returned False.
C21_FailingRuleGoesOn ==
    (mode = "runner" /\ pc = "returned" /\ ghost.started # {}
        /\ ~ghost.cancel_seen /\ ~ghost.raised)
    => /\ ret = TRUE
       /\ ghost.completed = 1..N
       /\ FinishedIn(runs + 1) = 1..N
       /\ \A j \in ghost.failed : rule_validators[j].result # NoRuleResult

C21_Witness ==
    /\ mode = "runner"
    /\ pc = "returned"
    /\ N = 3
    /\ runs = 0
    /\ cancel_pc = "none"
    /\ ghost.failed = {2}
    /\ ghost.completed = {1, 2, 3}
    /\ ret = TRUE
    /\ FinishedOrder(1) = << 1, 2, 3 >>

\* C22: an NcsDataValidator constructed with at least 2 model components
\* never raises from run(), its run() is not refused by the entry guard, and
\* every rule validator that is started holds exactly the list given to the
\* constructor.
C22_NcsValidatesGiven ==
    (mode = "runner" /\ ctor.cls = "NcsDataValidator" /\ Len(ctor.model_components) >= 2)
    => /\ pc # "raised"
       /\ (pc = "returned" /\ ~ghost.cancel_seen) => ghost.started # {}
       /\ \A j \in ghost.started :
             rule_validators[j].model_components = ctor.model_components

====
